---- MODULE Spec2Model ----
(***************************************************************************)
(* A model of the CSV splitter: main() reads a header/body framed text     *)
(* file (CSVProcessor), builds and de-duplicates a DataFrame, validates    *)
(* the command line (ArgumentParser.validate_args) and splits the frame    *)
(* into per-key, per-chunk CSV files (FileSplitter), sequentially or on a  *)
(* thread pool.  The interactive prompts and the optional analysis report  *)
(* of main() write no file and take no part in the model.                  *)
(*                                                                         *)
(* Text is a sequence of one-character strings, so that strip, split and   *)
(* startswith are computed the way the Python code computes them.  A file  *)
(* is a sequence of lines; a line is held without its trailing newline,    *)
(* which only strip() ever looks at.                                       *)
(***************************************************************************)
EXTENDS Integers, Sequences, FiniteSets, TLC

(***************************************************************************)
(* Text helpers (Python str methods).                                      *)
(***************************************************************************)
Whitespace == {" "}

Digits == <<"0", "1", "2", "3", "4", "5", "6", "7", "8", "9">>

IsDigit(c) == \E i \in 1..Len(Digits) : Digits[i] = c

DigitValue(c) == (CHOOSE i \in 1..Len(Digits) : Digits[i] = c) - 1

\* str.lstrip(chars)
RECURSIVE LStripChars(_, _)
LStripChars(s, chars) ==
    IF s # <<>> /\ Head(s) \in chars THEN LStripChars(Tail(s), chars) ELSE s

\* str.rstrip(chars)
RECURSIVE RStripChars(_, _)
RStripChars(s, chars) ==
    IF s # <<>> /\ s[Len(s)] \in chars
    THEN RStripChars(SubSeq(s, 1, Len(s) - 1), chars)
    ELSE s

\* str.strip(chars): every leading and trailing character of the set goes
StripChars(s, chars) == RStripChars(LStripChars(s, chars), chars)

\* str.strip()
Strip(s) == StripChars(s, Whitespace)

\* str.startswith(c) for a one-character prefix
StartsWith(s, c) == s # <<>> /\ Head(s) = c

\* str.split(sep) for a one-character separator: "" splits to [""]
RECURSIVE Split(_, _)
Split(s, sep) ==
    IF \A i \in 1..Len(s) : s[i] # sep
    THEN <<s>>
    ELSE LET i == CHOOSE k \in 1..Len(s) :
                      s[k] = sep /\ \A j \in 1..(k - 1) : s[j] # sep
         IN  <<SubSeq(s, 1, i - 1)>> \o Split(SubSeq(s, i + 1, Len(s)), sep)

\* sep.join(parts)
RECURSIVE Join(_, _)
Join(parts, sep) ==
    IF parts = <<>> THEN <<>>
    ELSE IF Len(parts) = 1 THEN parts[1]
    ELSE parts[1] \o <<sep>> \o Join(Tail(parts), sep)

\* the value of a string of decimal digits
RECURSIVE DigitsValue(_)
DigitsValue(s) ==
    IF s = <<>> THEN 0
    ELSE 10 * DigitsValue(SubSeq(s, 1, Len(s) - 1)) + DigitValue(s[Len(s)])

\* str(n) for n >= 0
RECURSIVE NatStr(_)
NatStr(n) ==
    IF n < 10 THEN <<Digits[n + 1]>> ELSE NatStr(n \div 10) \o <<Digits[(n % 10) + 1]>>

AllDigits(s) == s # <<>> /\ \A i \in 1..Len(s) : IsDigit(s[i])

\* int(s): an optional sign and decimal digits, else ValueError
ParseInt(s) ==
    IF AllDigits(s) THEN [ok |-> TRUE, val |-> DigitsValue(s)]
    ELSE IF Len(s) > 1 /\ s[1] = "-" /\ AllDigits(Tail(s))
         THEN [ok |-> TRUE, val |-> 0 - DigitsValue(Tail(s))]
    ELSE IF Len(s) > 1 /\ s[1] = "+" /\ AllDigits(Tail(s))
         THEN [ok |-> TRUE, val |-> DigitsValue(Tail(s))]
    ELSE [ok |-> FALSE, exc |-> "ValueError"]

(***************************************************************************)
(* Results of calls that may raise: Ok(v) or Raise(exception class).       *)
(***************************************************************************)
Ok(v) == [ok |-> TRUE, val |-> v]

Raise(e) == [ok |-> FALSE, exc |-> e]

(***************************************************************************)
(* CSVProcessor                                                            *)
(***************************************************************************)
HEADER_END == <<"<", "/", "H", "E", "A", "D", "E", "R", ">">>

BOD == <<"<", "B", "O", "D", ">">>

\* the lines before the first line that strips to </HEADER>, or all of them
RECURSIVE HeaderLines(_)
HeaderLines(lines) ==
    IF lines = <<>> \/ Strip(Head(lines)) = HEADER_END THEN <<>>
    ELSE <<Head(lines)>> \o HeaderLines(Tail(lines))

\* CSVProcessor.read_header
read_header(f) ==
    IF ~f.exists THEN Raise("FileNotFoundError") ELSE Ok(HeaderLines(f.lines))

\* CSVProcessor.get_num_columns
get_num_columns(header_section) ==
    IF Len(header_section) < 4 THEN Raise("ValueError")
    ELSE LET parts == Split(header_section[3], "=")
         IN  IF Len(parts) < 2 THEN Raise("IndexError")
             ELSE ParseInt(Strip(parts[2]))

\* CSVProcessor.get_column_names
get_column_names(header_section) ==
    LET parts == Split(header_section[4], "=")
    IN  IF Len(parts) < 2 THEN Raise("IndexError")
        ELSE Ok(Split(StripChars(Strip(parts[2]), {"[", "]"}), ","))

\* the comparison accepting fewer names than declared
HeaderMatchesAtMost(column_names, num_columns) == Len(column_names) <= num_columns

\* the comparison of read_and_validate_header
HeaderMatches(column_names, num_columns) == Len(column_names) = num_columns

\* CSVProcessor.read_and_validate_header
read_and_validate_header(f) ==
    LET header_section == read_header(f)
    IN  IF ~header_section.ok THEN header_section
        ELSE LET num_columns == get_num_columns(header_section.val)
             IN  IF ~num_columns.ok THEN num_columns
                 ELSE LET column_names == get_column_names(header_section.val)
                      IN  IF ~column_names.ok THEN column_names
                          ELSE IF ~HeaderMatches(column_names.val, num_columns.val)
                               THEN Raise("ValueError")
                          ELSE column_names

\* the loop of read_data: in_data_section is the flag, acc the list so far
RECURSIVE DataLines(_, _, _)
DataLines(lines, in_data_section, acc) ==
    IF lines = <<>> THEN acc
    ELSE LET line == Head(lines)
         IN  IF Strip(line) = BOD THEN DataLines(Tail(lines), TRUE, acc)
             ELSE IF in_data_section
                  THEN IF Strip(line) = <<>> \/ StartsWith(line, "<")
                       THEN DataLines(Tail(lines), in_data_section, acc)
                       ELSE DataLines(Tail(lines), in_data_section,
                                      Append(acc, Strip(line)))
             ELSE DataLines(Tail(lines), in_data_section, acc)

\* CSVProcessor.read_data
read_data(f) ==
    IF ~f.exists THEN Raise("FileNotFoundError")
    ELSE Ok(DataLines(f.lines, FALSE, <<>>))

(***************************************************************************)
(* pandas.read_csv as convert_to_dataframe calls it.  A cell is a text, or *)
(* NaN.  An int64 cell is the decimal text of its value, a float64 cell    *)
(* that text followed by ".0".  Fields here are unquoted and numeric       *)
(* fields are unsigned decimal integers.                                   *)
(***************************************************************************)
NaN == <<"nan">>

NA == <<"N", "A">>

\* fields read_csv reads as missing (its default na_values, in part)
NAValues == {<<>>, NA, <<"N", "a", "N">>, <<"n", "u", "l", "l">>}

IsMissing(field) == field \in NAValues

\* the leading n fields of a line; a line with fewer is padded with missing
RowFields(line, n) ==
    LET fields == Split(line, ";")
    IN  [c \in 1..n |-> IF c <= Len(fields) THEN fields[c] ELSE <<>>]

\* the dtype read_csv infers for a column from its fields
InferDtype(fields) ==
    IF \A i \in 1..Len(fields) : IsMissing(fields[i]) \/ AllDigits(fields[i])
    THEN IF \E i \in 1..Len(fields) : IsMissing(fields[i])
         THEN "float64" ELSE "int64"
    ELSE "object"

\* the cell read_csv stores for a field of a column of that dtype
ParseCell(field, dtype) ==
    IF IsMissing(field) THEN NaN
    ELSE IF dtype = "int64" THEN NatStr(DigitsValue(field))
    ELSE IF dtype = "float64" THEN NatStr(DigitsValue(field)) \o <<".", "0">>
    ELSE field

HasDuplicates(seq) == \E i, j \in 1..Len(seq) : i < j /\ seq[i] = seq[j]

\* CSVProcessor.convert_to_dataframe
convert_to_dataframe(data_section, column_names) ==
    IF HasDuplicates(column_names) THEN Raise("ValueError")
    ELSE IF data_section = <<>> THEN Raise("EmptyDataError")
    ELSE LET n      == Len(column_names)
             raw    == [r \in 1..Len(data_section) |-> RowFields(data_section[r], n)]
             dtypes == [c \in 1..n |->
                           InferDtype([r \in 1..Len(raw) |-> raw[r][c]])]
         IN  Ok([columns |-> column_names,
                 dtypes  |-> dtypes,
                 rows    |-> [r \in 1..Len(raw) |->
                                [c \in 1..n |-> ParseCell(raw[r][c], dtypes[c])]]])

\* Block._can_hold_element(None): only an object block can hold None
CanHoldNone(dtype) == dtype = "object"

\* df.replace({None: "NA"}): the missing cells of every block that can hold
\* the key None become the text NA
ReplaceNone(df) ==
    [df EXCEPT !.rows =
        [r \in 1..Len(df.rows) |->
            [c \in 1..Len(df.columns) |->
                IF CanHoldNone(df.dtypes[c]) /\ df.rows[r][c] = NaN
                THEN NA ELSE df.rows[r][c]]]]

\* drop_duplicates(keep="last"): the last of equal rows stays
RECURSIVE DropDuplicatesKeepLast(_, _)
DropDuplicatesKeepLast(rows, kept) ==
    IF rows = <<>> THEN kept
    ELSE IF \E k \in 2..Len(rows) : rows[k] = Head(rows)
         THEN DropDuplicatesKeepLast(Tail(rows), kept)
         ELSE DropDuplicatesKeepLast(Tail(rows), Append(kept, Head(rows)))

\* DataFrame.drop_duplicates(): the first of equal rows stays, in order
RECURSIVE DropDuplicates(_, _)
DropDuplicates(rows, kept) ==
    IF rows = <<>> THEN kept
    ELSE IF \E i \in 1..Len(kept) : kept[i] = Head(rows)
         THEN DropDuplicates(Tail(rows), kept)
         ELSE DropDuplicates(Tail(rows), Append(kept, Head(rows)))

\* CSVProcessor.process_dataframe
process_dataframe(df) ==
    LET replaced == ReplaceNone(df)
    IN  [replaced EXCEPT !.rows = DropDuplicates(replaced.rows, <<>>)]

(***************************************************************************)
(* Ordering of group keys (groupby sorts its keys).                        *)
(***************************************************************************)
\* the characters of the model in code point order
Alphabet ==
    <<" ", "+", ",", "-", ".", "/",
      "0", "1", "2", "3", "4", "5", "6", "7", "8", "9",
      ";", "<", "=", ">",
      "A", "B", "C", "D", "E", "H", "M", "N", "O", "R", "S", "U", "[", "]", "_",
      "a", "b", "c", "d", "e", "f", "i", "l", "n", "o", "t", "u", "x", "y", "z">>

Rank(c) == CHOOSE i \in 1..Len(Alphabet) : Alphabet[i] = c

\* a < b for texts
RECURSIVE TextLess(_, _)
TextLess(a, b) ==
    IF b = <<>> THEN FALSE
    ELSE IF a = <<>> THEN TRUE
    ELSE IF Head(a) = Head(b) THEN TextLess(Tail(a), Tail(b))
    ELSE Rank(Head(a)) < Rank(Head(b))

\* the number an int64 or float64 cell holds
CellNumber(cell) == DigitsValue(Split(cell, ".")[1])

\* a < b for keys of a column of that dtype
KeyLess(a, b, dtype) ==
    IF dtype = "object" THEN TextLess(a, b) ELSE CellNumber(a) < CellNumber(b)

\* the keys in ascending order
RECURSIVE SortKeys(_, _)
SortKeys(keys, dtype) ==
    IF keys = {} THEN <<>>
    ELSE LET least == CHOOSE k \in keys :
                          \A other \in keys \ {k} : KeyLess(k, other, dtype)
         IN  <<least>> \o SortKeys(keys \ {least}, dtype)

(***************************************************************************)
(* FileSplitter                                                            *)
(***************************************************************************)
\* range(0, stop, step) for stop >= 0
RECURSIVE RangeFrom(_, _, _)
RangeFrom(start, stop, step) ==
    IF start >= stop THEN <<>>
    ELSE <<start>> \o RangeFrom(start + step, stop, step)

PyRange(stop, step) ==
    IF step = 0 THEN Raise("ValueError")
    ELSE IF step < 0 THEN Ok(<<>>)
    ELSE Ok(RangeFrom(0, stop, step))

\* seq[i] for a Python index i, negative ones counting from the end
PyIndex(seq, i) ==
    IF i >= 0 /\ i < Len(seq) THEN Ok(i + 1)
    ELSE IF i < 0 /\ 0 - i <= Len(seq) THEN Ok(Len(seq) + i + 1)
    ELSE Raise("IndexError")

\* the slice with its end taken as inclusive
ILocInclusive(rows, a, b) ==
    SubSeq(rows, a + 1, IF b + 1 < Len(rows) THEN b + 1 ELSE Len(rows))

\* group.iloc[a:b] for 0 <= a <= b
ILoc(rows, a, b) == SubSeq(rows, a + 1, IF b < Len(rows) THEN b ELSE Len(rows))

\* the keys df.groupby(column) iterates: the column's values that are not
\* missing (dropna), sorted
GroupKeys(df, col) ==
    SortKeys({df.rows[r][col] : r \in 1..Len(df.rows)} \ {NaN}, df.dtypes[col])

\* the rows of one group, in frame order
GroupRows(df, col, key) == SelectSeq(df.rows, LAMBDA row : row[col] = key)

\* filename_pattern.format(key=key, index=index): a pattern is a sequence of
\* characters and of the fields "{key}" and "{index}"
RECURSIVE Format(_, _, _)
Format(pattern, key, index) ==
    IF pattern = <<>> THEN <<>>
    ELSE (IF Head(pattern) = "{key}" THEN key
          ELSE IF Head(pattern) = "{index}" THEN NatStr(index)
          ELSE <<Head(pattern)>>) \o Format(Tail(pattern), key, index)

CSV_SUFFIX == <<".", "c", "s", "v">>

\* the f-string with every chunk numbered 1
OutputFileNameFirstIndex(output_folder, pattern, key, group_index, chunk_size) ==
    output_folder \o <<"/">> \o Format(pattern, key, 1) \o CSV_SUFFIX

\* the f-string that names a task's file
OutputFileName(output_folder, pattern, key, group_index, chunk_size) ==
    output_folder \o <<"/">>
        \o Format(pattern, key, (group_index \div chunk_size) + 1) \o CSV_SUFFIX

\* the tasks of one group: one per start offset.  A task is the pair
\* (sub_group, output_file_name); key and index are the loop's key and the
\* chunk number its file name was formatted from
GroupTasks(df, rows, key, starts, output_folder, chunk_size, pattern) ==
    [i \in 1..Len(starts) |->
        [sub_group |-> [df EXCEPT !.rows = ILoc(rows, starts[i], starts[i] + chunk_size)],
         key       |-> key,
         index     |-> (starts[i] \div chunk_size) + 1,
         file      |-> OutputFileName(output_folder, pattern, key, starts[i], chunk_size)]]

\* the outer loop of prepare_file_writing_tasks over the sorted keys
RECURSIVE TasksOfKeys(_, _, _, _, _, _)
TasksOfKeys(df, col, keys, output_folder, chunk_size, pattern) ==
    IF keys = <<>> THEN Ok(<<>>)
    ELSE LET rows   == GroupRows(df, col, Head(keys))
             starts == PyRange(Len(rows), chunk_size)
         IN  IF ~starts.ok THEN starts
             ELSE LET rest == TasksOfKeys(df, col, Tail(keys), output_folder,
                                          chunk_size, pattern)
                  IN  IF ~rest.ok THEN rest
                      ELSE Ok(GroupTasks(df, rows, Head(keys), starts.val,
                                         output_folder, chunk_size, pattern)
                              \o rest.val)

\* FileSplitter.prepare_file_writing_tasks, after os.makedirs
prepare_file_writing_tasks(df, split_column_index, output_folder, chunk_size, pattern) ==
    LET col == PyIndex(df.columns, split_column_index)
    IN  IF ~col.ok THEN col
        ELSE TasksOfKeys(df, col.val, GroupKeys(df, col.val), output_folder,
                         chunk_size, pattern)

(***************************************************************************)
(* DataFrame.to_csv(path, index=False): the file's lines                   *)
(***************************************************************************)
\* a cell as to_csv writes it: a missing value is empty, a text holding the
\* delimiter is quoted
CsvField(cell) ==
    IF cell = NaN THEN <<>>
    ELSE IF \E i \in 1..Len(cell) : cell[i] = ","
         THEN <<"\"">> \o cell \o <<"\"">>
    ELSE cell

CsvLines(sub_group) ==
    <<Join([c \in 1..Len(sub_group.columns) |-> CsvField(sub_group.columns[c])], ",")>>
    \o [r \in 1..Len(sub_group.rows) |->
           Join([c \in 1..Len(sub_group.columns) |-> CsvField(sub_group.rows[r][c])], ",")]

(***************************************************************************)
(* State of one run of main()                                              *)
(***************************************************************************)
VARIABLES
    file,           \* the input file: [exists, lines]
    args,           \* the parsed command line
    pc,             \* where main() is
    column_names,   \* what read_and_validate_header returned
    data_section,   \* what read_data returned
    df,             \* what convert_to_dataframe returned
    processed_df,   \* what process_dataframe returned
    error,          \* the exception main() logged and returned on, or "none"
    folder_made,    \* whether os.makedirs(output_folder) ran
    tasks,          \* what prepare_file_writing_tasks returned
    disk,           \* the output files: path -> lines
    progress,       \* progress_bar.n
    outcome,        \* per task, how its to_csv call ended ("none": not called)
    logged,         \* the files the emitter logged a failure for
    i,              \* the sequential loop's position in tasks
    submitted,      \* how many tasks the executor was given
    futures,        \* per task, the state of its future
    collected       \* the futures as_completed has yielded

vars == <<file, args, pc, column_names, data_section, df, processed_df, error,
          folder_made, tasks, disk, progress, outcome, logged, i, submitted,
          futures, collected>>

parsed == <<column_names, data_section, df, processed_df>>

emitted == <<folder_made, tasks, disk, progress, outcome, logged, i, submitted,
             futures, collected>>

EmptyFrame == [columns |-> <<>>, dtypes |-> <<>>, rows |-> <<>>]

\* a function with an empty domain: no file
NoFiles == [p \in {} |-> <<>>]

\* the state main() starts in, for a file and a command line
InitWith(files, argset) ==
    /\ file \in files
    /\ args \in argset
    /\ pc = "start"
    /\ column_names = <<>>
    /\ data_section = <<>>
    /\ df = EmptyFrame
    /\ processed_df = EmptyFrame
    /\ error = "none"
    /\ folder_made = FALSE
    /\ tasks = <<>>
    /\ disk = NoFiles
    /\ progress = 0
    /\ outcome = <<>>
    /\ logged = {}
    /\ i = 1
    /\ submitted = 0
    /\ futures = <<>>
    /\ collected = {}

\* except blocks that log and do not return
FailAndGoOn(exc) ==
    /\ pc' = "split"
    /\ error' = exc

\* main()'s except blocks around parsing and validation: log and return
Fail(exc) ==
    /\ pc' = "error"
    /\ error' = exc

\* csv_processor.read_and_validate_header()
ReadAndValidateHeader ==
    /\ pc = "start"
    /\ LET r == read_and_validate_header(file)
       IN  IF r.ok
           THEN /\ column_names' = r.val
                /\ pc' = "read_data"
                /\ UNCHANGED error
           ELSE /\ Fail(r.exc)
                /\ UNCHANGED column_names
    /\ UNCHANGED <<file, args, data_section, df, processed_df, emitted>>

\* csv_processor.read_data()
ReadData ==
    /\ pc = "read_data"
    /\ LET r == read_data(file)
       IN  IF r.ok
           THEN /\ data_section' = r.val
                /\ pc' = "convert"
                /\ UNCHANGED error
           ELSE /\ Fail(r.exc)
                /\ UNCHANGED data_section
    /\ UNCHANGED <<file, args, column_names, df, processed_df, emitted>>

\* csv_processor.convert_to_dataframe(data_section, column_names)
ConvertToDataframe ==
    /\ pc = "convert"
    /\ LET r == convert_to_dataframe(data_section, column_names)
       IN  IF r.ok
           THEN /\ df' = r.val
                /\ pc' = "process"
                /\ UNCHANGED error
           ELSE /\ Fail(r.exc)
                /\ UNCHANGED df
    /\ UNCHANGED <<file, args, column_names, data_section, processed_df, emitted>>

\* csv_processor.process_dataframe(df): replace works in place on df
ProcessDataframe ==
    /\ pc = "process"
    /\ df' = ReplaceNone(df)
    /\ processed_df' = process_dataframe(df)
    /\ pc' = "validate"
    /\ UNCHANGED <<file, args, column_names, data_section, error, emitted>>

\* validate_args without its chunk size check
validate_args_column_only(a, names) ==
    IF a.column_index < 1 \/ a.column_index > Len(names)
    THEN "ValueError: column index out of range"
    ELSE "none"

\* ArgumentParser.validate_args: the exception it raises, or "none"
validate_args(a, names) ==
    IF a.column_index < 1 \/ a.column_index > Len(names)
    THEN "ValueError: column index out of range"
    ELSE IF a.chunk_size < 1 THEN "ValueError: chunk size invalid"
    ELSE "none"

\* arg_parser.validate_args(args, column_names)
ValidateArgs ==
    /\ pc = "validate"
    /\ LET exc == validate_args(args, column_names)
       IN  IF exc = "none"
           THEN pc' = "split" /\ UNCHANGED error
           ELSE Fail(exc)
    /\ UNCHANGED <<file, args, parsed, emitted>>

(***************************************************************************)
(* Emission.  A to_csv call ends in one of three ways, which the           *)
(* environment decides: it writes the file, it raises an IOError (OSError),*)
(* or it raises an exception of another class.                             *)
(***************************************************************************)
Outcomes == {"ok", "IOError", "Exception"}

\* ThreadPoolExecutor(max_workers=max_workers), the default of
\* split_and_save_threaded
max_workers == 5

\* the file at path holds exactly these lines (a to_csv call run alone)
WriteFile(files, path, lines) == (path :> lines) @@ files

\* open(path, "w"): the file exists and is empty
Truncate(files, path) == (path :> <<>>) @@ files

\* write and close on a handle opened earlier: the lines go in at offset 0
\* over whatever the file holds by now
Overwrite(files, path, lines) ==
    (path :> (lines \o SubSeq(files[path], Len(lines) + 1, Len(files[path]))))
        @@ files

\* the try block of split_and_save's loop: what the disk holds after to_csv
\* ended with outcome o
SaveSequential(files, task, o) ==
    IF o = "ok" THEN WriteFile(files, task.file, CsvLines(task.sub_group)) ELSE files

\* the files split_and_save leaves for these tasks and to_csv outcomes: an
\* IOError is logged and the loop goes on, another exception ends it
RECURSIVE split_and_save(_, _, _, _)
split_and_save(ts, outcomes, k, files) ==
    IF k > Len(ts) THEN files
    ELSE IF outcomes[k] \in {"ok", "IOError"}
         THEN split_and_save(ts, outcomes, k + 1,
                             SaveSequential(files, ts[k], outcomes[k]))
    ELSE files

\* FileSplitter(...) and the start of split_and_save / split_and_save_threaded:
\* tasks = self.prepare_file_writing_tasks(); progress_bar = tqdm(total=len(tasks))
Prepare ==
    /\ pc = "split"
    /\ folder_made' = TRUE
    /\ LET r == prepare_file_writing_tasks(processed_df, args.column_index - 1,
                                           args.output, args.chunk_size,
                                           args.name_pattern)
       IN  IF r.ok
           THEN /\ tasks' = r.val
                /\ outcome' = [t \in 1..Len(r.val) |-> "none"]
                /\ futures' = [t \in 1..Len(r.val) |-> "unsubmitted"]
                /\ pc' = IF args.threading THEN "submit" ELSE "loop"
                /\ UNCHANGED error
           ELSE /\ pc' = "done"
                /\ error' = r.exc
                /\ UNCHANGED <<tasks, outcome, futures>>
    /\ UNCHANGED <<file, args, parsed, disk, progress, logged, i, submitted,
                   collected>>

\* one iteration of split_and_save's loop: try to_csv, except IOError log,
\* finally progress_bar.update(1); any other exception leaves the method and
\* main() logs it
SeqWrite ==
    /\ pc = "loop"
    /\ i <= Len(tasks)
    /\ \E o \in Outcomes :
        /\ outcome' = [outcome EXCEPT ![i] = o]
        /\ disk' = SaveSequential(disk, tasks[i], o)
        /\ logged' = IF o = "IOError" THEN logged \cup {tasks[i].file} ELSE logged
        /\ progress' = progress + 1
        /\ IF o = "Exception"
           THEN pc' = "done" /\ error' = "Exception" /\ UNCHANGED i
           ELSE i' = i + 1 /\ UNCHANGED <<pc, error>>
    /\ UNCHANGED <<file, args, parsed, folder_made, tasks, submitted, futures,
                   collected>>

\* the loop is over: progress_bar.close() and return
SeqClose ==
    /\ pc = "loop"
    /\ i > Len(tasks)
    /\ pc' = "done"
    /\ UNCHANGED <<file, args, parsed, error, emitted>>

\* executor.submit(self.save_subgroup, ...) for the next task
Submit ==
    /\ pc = "submit"
    /\ submitted < Len(tasks)
    /\ submitted' = submitted + 1
    /\ futures' = [futures EXCEPT ![submitted + 1] = "pending"]
    /\ UNCHANGED <<file, args, pc, parsed, error, folder_made, tasks, disk,
                   progress, outcome, logged, i, collected>>

\* every task is submitted: main() enters the as_completed loop
AllSubmitted ==
    /\ pc = "submit"
    /\ submitted = Len(tasks)
    /\ pc' = "collect"
    /\ UNCHANGED <<file, args, parsed, error, emitted>>

\* the tasks a worker thread is running
Running == {t \in 1..Len(futures) : futures[t] \in {"opened", "finally"}}

\* a worker takes the oldest pending task and save_subgroup calls to_csv,
\* which opens the file or raises; both except blocks log and re-raise
WorkerOpen(t) ==
    /\ futures[t] = "pending"
    /\ \A u \in 1..(t - 1) : futures[u] # "pending"
    /\ Cardinality(Running) < max_workers
    /\ \E o \in Outcomes :
        /\ outcome' = [outcome EXCEPT ![t] = o]
        /\ IF o = "ok"
           THEN /\ disk' = Truncate(disk, tasks[t].file)
                /\ futures' = [futures EXCEPT ![t] = "opened"]
                /\ UNCHANGED logged
           ELSE /\ logged' = logged \cup {tasks[t].file}
                /\ futures' = [futures EXCEPT ![t] = "finally"]
                /\ UNCHANGED disk
    /\ UNCHANGED <<file, args, pc, parsed, error, folder_made, tasks, progress,
                   i, submitted, collected>>

\* to_csv writes the lines and closes the file
WorkerWrite(t) ==
    /\ futures[t] = "opened"
    /\ disk' = Overwrite(disk, tasks[t].file, CsvLines(tasks[t].sub_group))
    /\ futures' = [futures EXCEPT ![t] = "finally"]
    /\ UNCHANGED <<file, args, pc, parsed, error, folder_made, tasks, progress,
                   outcome, logged, i, submitted, collected>>

\* save_subgroup's finally: with progress_lock: progress_bar.update(1); the
\* future is done
WorkerFinally(t) ==
    /\ futures[t] = "finally"
    /\ progress' = progress + 1
    /\ futures' = [futures EXCEPT ![t] = "done"]
    /\ UNCHANGED <<file, args, pc, parsed, error, folder_made, tasks, disk,
                   outcome, logged, i, submitted, collected>>

\* as_completed yields a done future; future.result() re-raises what
\* save_subgroup raised and either except block logs it
Collect(t) ==
    /\ pc = "collect"
    /\ futures[t] = "done"
    /\ t \notin collected
    /\ collected' = collected \cup {t}
    /\ logged' = IF outcome[t] # "ok" THEN logged \cup {tasks[t].file} ELSE logged
    /\ UNCHANGED <<file, args, pc, parsed, error, folder_made, tasks, disk,
                   progress, outcome, i, submitted, futures>>

\* every future was yielded: the executor shuts down, progress_bar.close()
ThreadedClose ==
    /\ pc = "collect"
    /\ collected = 1..Len(tasks)
    /\ pc' = "done"
    /\ UNCHANGED <<file, args, parsed, error, emitted>>

Next ==
    \/ ReadAndValidateHeader
    \/ ReadData
    \/ ConvertToDataframe
    \/ ProcessDataframe
    \/ ValidateArgs
    \/ Prepare
    \/ SeqWrite
    \/ SeqClose
    \/ Submit
    \/ AllSubmitted
    \/ \E t \in 1..Len(tasks) : WorkerOpen(t)
    \/ \E t \in 1..Len(tasks) : WorkerWrite(t)
    \/ \E t \in 1..Len(tasks) : WorkerFinally(t)
    \/ \E t \in 1..Len(tasks) : Collect(t)
    \/ ThreadedClose

(***************************************************************************)
(* Inputs: files and command lines                                         *)
(***************************************************************************)
\* bounds of the input sets
MaxCount == 3

MaxNames == 3

MaxRows == 3

MaxMainRows == 3

MaxChunk == 2

\* the sequences over S of lengths lo..hi
SeqsOf(S, lo, hi) == UNION {[1..n -> S] : n \in lo..hi}

TitleLine == <<"t">>

\* line index 2, NUM_COLUMNS=<int>: well formed, padded, unparseable, with a
\* second "=", without any
CountLines ==
    {<<"N", "=">> \o NatStr(k) : k \in 0..MaxCount}
    \cup {<<"N", "=", " ", "2", " ">>, <<"N", "=", "x">>, <<"N", "=">>,
          <<"N", "=", "2", "=", "3">>, <<"N", "=", "-", "1">>, <<"N">>}

\* line index 3, COLUMN_NAMES=[...]: every list of up to MaxNames names in
\* brackets, then lists without brackets, doubly bracketed, padded, with a
\* trailing comma, and a line without "="
NamesLines ==
    {<<"C", "=", "[">> \o Join(names, ",") \o <<"]">> :
        names \in SeqsOf({<<"a">>, <<"b">>}, 0, MaxNames)}
    \cup {<<"C", "=", "a", ",", "b">>,
          <<"C", "=", "[", "[", "a", ",", "b", "]", "]">>,
          <<"C", "=", " ", "[", "a", ",", "b", "]", " ">>,
          <<"C", "=", "[", "a", ",", "]">>,
          <<"C">>}

\* header blocks: four lines and more, and the first lines of those
HeaderBlocks ==
    LET full == {<<TitleLine, TitleLine, c, n>> : c \in CountLines, n \in NamesLines}
    IN  full
        \cup {b \o <<TitleLine>> : b \in {<<TitleLine, TitleLine, CountLines_2, n>> :
                                            CountLines_2 \in {<<"N", "=", "2">>},
                                            n \in NamesLines}}
        \cup {SubSeq(<<TitleLine, TitleLine, <<"N", "=", "2">>>>, 1, k) : k \in 0..3}

ExistingFile(lines) == [exists |-> TRUE, lines |-> lines]

MissingFile == [exists |-> FALSE, lines |-> <<>>]

\* a file: header block, </HEADER>, <BOD>, body lines
FramedFile(header, body) ==
    ExistingFile(header \o <<HEADER_END, BOD>> \o body)

GoodHeader == <<TitleLine, TitleLine, <<"N", "=", "2">>,
                <<"C", "=", "[", "a", ",", "b", "]">>>>

\* files that differ in their header: framed, or ending before </HEADER>
HeaderFiles ==
    {FramedFile(h, <<>>) : h \in HeaderBlocks}
    \cup {ExistingFile(h) : h \in HeaderBlocks}
    \cup {MissingFile}

\* body lines for a two-column schema: text and numeric fields, empty,
\* absent and excess ones, the text NA
BodyLines ==
    {<<"x", ";", "1">>, <<"y", ";", "1">>, <<"x", ";", "2">>, <<"x", ";">>,
     <<";", "1">>, <<"y">>, <<"x", ";", "1", ";", "z">>, <<"x", ";", "N", "A">>,
     <<"x", ";", "0", "1">>, <<"x", ";", "y">>}

\* files that differ in their body
TableFiles == {FramedFile(GoodHeader, b) : b \in SeqsOf(BodyLines, 0, MaxRows)}

DefaultPattern ==
    <<"d", "a", "t", "a", "f", "i", "l", "e", "_", "{key}", "_", "{index}">>

Patterns == {DefaultPattern, <<"f", "_", "{key}">>, <<"f">>}

OutputFolder == <<"o", "u", "t">>

ArgsOf(columns, chunks, modes, patterns) ==
    [column_index : columns, chunk_size : chunks, threading : modes,
     name_pattern : patterns, output : {OutputFolder}]

\* the files of whole runs: small bodies under a good header, and one file
\* for each way parsing fails
MainFiles ==
    {FramedFile(GoodHeader, b) :
        b \in SeqsOf({<<"x", ";", "1">>, <<"x", ";", "2">>, <<"y", ";", "1">>},
                     0, MaxMainRows)}
    \cup {MissingFile,
          FramedFile(<<TitleLine, TitleLine>>, <<<<"x", ";", "1">>>>),
          FramedFile(<<TitleLine, TitleLine, <<"N", "=", "x">>,
                       <<"C", "=", "[", "a", ",", "b", "]">>>>, <<<<"x", ";", "1">>>>),
          FramedFile(<<TitleLine, TitleLine, <<"N", "=", "3">>,
                       <<"C", "=", "[", "a", ",", "b", "]">>>>, <<<<"x", ";", "1">>>>),
          FramedFile(<<TitleLine, TitleLine, <<"N", "=", "2">>, <<"C">>>>,
                     <<<<"x", ";", "1">>>>),
          FramedFile(<<TitleLine, TitleLine, <<"N", "=", "2">>,
                       <<"C", "=", "[", "a", ",", "a", "]">>>>, <<<<"x", ";", "1">>>>)}

MainArgs == ArgsOf(0..3, (0 - 1)..MaxChunk, BOOLEAN, Patterns)

Init == InitWith(MainFiles, MainArgs)

\* a whole run of main()
Spec == Init /\ [][Next]_vars

\* header parsing alone, over many headers
InitHeader == InitWith(HeaderFiles, ArgsOf({1}, {1}, {FALSE}, {DefaultPattern}))

NextHeader == ReadAndValidateHeader

SpecHeader == InitHeader /\ [][NextHeader]_vars

\* table building, over many bodies
InitTable == InitWith(TableFiles, ArgsOf({1}, {1}, {FALSE}, {DefaultPattern}))

NextTable ==
    \/ ReadAndValidateHeader
    \/ ReadData
    \/ ConvertToDataframe
    \/ ProcessDataframe

SpecTable == InitTable /\ [][NextTable]_vars

\* partitioning, over many bodies, split columns and chunk sizes
InitPartition ==
    InitWith(TableFiles, ArgsOf(1..2, 1..MaxChunk, {FALSE}, {DefaultPattern}))

NextPartition ==
    \/ ReadAndValidateHeader
    \/ ReadData
    \/ ConvertToDataframe
    \/ ProcessDataframe
    \/ ValidateArgs
    \/ Prepare

SpecPartition == InitPartition /\ [][NextPartition]_vars

\* a pattern whose two fields touch
AdjacentPattern == <<"{key}", "{index}">>

\* rows of the longest group of LongFile: enough for a chunk number of two
\* digits that ends in the digit another key ends in
LongGroup == 11

\* a file whose first column has the keys x (LongGroup distinct rows) and x1
LongFile ==
    FramedFile(GoodHeader,
               [k \in 1..LongGroup |-> <<"x", ";">> \o NatStr(k)]
                   \o << <<"x", "1", ";", "1">> >>)

\* whole runs, and sequential runs over LongFile in chunks of one row
InitPaths ==
    \/ Init
    \/ InitWith({LongFile},
                ArgsOf({1}, {1}, {FALSE}, {DefaultPattern, AdjacentPattern}))

SpecPaths == InitPaths /\ [][Next]_vars

\* lines after </HEADER> in the files of BodyFiles
MaxFileLines == 4

\* raw lines: a data line, bare and padded; an empty and a blank line; a tag
\* line, bare and indented; the <BOD> line, bare and padded
RawLines ==
    {<<"x", ";", "1">>, <<" ", "x", ";", "1", " ">>, <<>>, <<" ">>,
     <<"<", "E", ">">>, <<" ", "<", "E", ">">>, BOD, <<" ">> \o BOD \o <<" ">>}

\* files that differ in what follows the header: with and without <BOD>,
\* with lines before it and with a second one
BodyFiles ==
    {ExistingFile(GoodHeader \o <<HEADER_END>> \o b) :
        b \in SeqsOf(RawLines, 0, MaxFileLines)}
    \cup {MissingFile}

\* reading the body, over many files
InitBody == InitWith(BodyFiles, ArgsOf({1}, {1}, {FALSE}, {DefaultPattern}))

NextBody ==
    \/ ReadAndValidateHeader
    \/ ReadData

SpecBody == InitBody /\ [][NextBody]_vars

(***************************************************************************)
(* Properties                                                              *)
(***************************************************************************)
\* the emitter has run to its end (or left by an exception)
EmitterDone == pc = "done"

\* C1: after any emitter run, in either mode and whatever the writes did,
\* the progress counter equals the number of tasks prepared.
C1_ProgressEqualsTotal == EmitterDone => progress = Len(tasks)

\* C2: in either mode a failed write is caught and logged and neither leaves
\* the emitter nor stops the other tasks: every task is attempted, every
\* task whose write succeeded has its file, and the run ends without raising.
C2_FailureContained ==
    EmitterDone =>
        /\ error = "none"
        /\ \A t \in 1..Len(tasks) :
            /\ outcome[t] # "none"
            /\ outcome[t] = "ok" => tasks[t].file \in DOMAIN disk
            /\ outcome[t] # "ok" => tasks[t].file \in logged

\* C3: for the same table, split column, chunk size, folder and pattern, the
\* threaded run leaves the files, with the contents, that the sequential run
\* leaves (the to_csv calls ending the same way in both).
C3_ModesAgree ==
    (EmitterDone /\ args.threading) => disk = split_and_save(tasks, outcome, 1, NoFiles)

\* how often x occurs in seq
Count(seq, x) == Cardinality({k \in 1..Len(seq) : seq[k] = x})

\* the rows of all chunks, task after task
RECURSIVE ChunkRows(_)
ChunkRows(ts) ==
    IF ts = <<>> THEN <<>> ELSE Head(ts).sub_group.rows \o ChunkRows(Tail(ts))

\* prepare_file_writing_tasks has returned its tasks
Prepared == pc \in {"loop", "submit"}

\* C4: the rows of all chunks together are exactly the table's rows as a
\* multiset: none lost, whatever its split-column value, none in two chunks.
C4_RowsPartitioned ==
    Prepared =>
        \A k \in 1..Len(processed_df.rows) :
            Count(ChunkRows(tasks), processed_df.rows[k])
                = Count(processed_df.rows, processed_df.rows[k])

SplitColumn == args.column_index

\* C5: a group of n >= 1 rows and a chunk size c >= 1 give ceil(n/c) chunks,
\* numbered 1..ceil(n/c) without a gap in their file names; chunk i holds
\* the group's rows at offsets [(i-1)*c, min(i*c, n)) in table order, so
\* every chunk but the last has c rows and the last has 1..c rows.
C5_ChunksOfGroup ==
    Prepared =>
        \A key \in {processed_df.rows[r][SplitColumn] :
                        r \in 1..Len(processed_df.rows)} \ {NaN} :
            LET group == SelectSeq(processed_df.rows,
                                   LAMBDA row : row[SplitColumn] = key)
                ts    == SelectSeq(tasks, LAMBDA t : t.key = key)
                n     == Len(group)
                c     == args.chunk_size
                min(a, b) == IF a < b THEN a ELSE b
            IN  /\ Len(ts) = (n + c - 1) \div c
                /\ \A k \in 1..Len(ts) :
                    /\ ts[k].file = args.output \o <<"/">>
                                      \o Format(args.name_pattern, key, k)
                                      \o CSV_SUFFIX
                    /\ ts[k].sub_group.rows = SubSeq(group, (k - 1) * c + 1, min(k * c, n))
                    /\ Len(ts[k].sub_group.rows) \in 1..c
                    /\ k < Len(ts) => Len(ts[k].sub_group.rows) = c

\* a group of three rows in chunks of two: a full chunk and a last one of one row
C5_Witness ==
    /\ Prepared
    /\ args.chunk_size = 2
    /\ \E key \in {tasks[t].key : t \in 1..Len(tasks)} :
        LET ts == SelectSeq(tasks, LAMBDA t : t.key = key)
        IN  Len(ts) = 2 /\ Len(ts[1].sub_group.rows) = 2 /\ Len(ts[2].sub_group.rows) = 1

\* no folder, no task, no file
NoOutput == ~folder_made /\ tasks = <<>> /\ disk = NoFiles

\* the file cannot be read, its declared column count cannot be parsed, or
\* its name list has another length than the declared count
ParseFails ==
    \/ ~file.exists
    \/ LET header_section == HeaderLines(file.lines)
           num_columns    == get_num_columns(header_section)
           names          == get_column_names(header_section)
       IN  \/ ~num_columns.ok
           \/ names.ok /\ Len(names.val) # num_columns.val

\* C6: if reading the file, parsing the declared column count or the schema
\* check fails, main() reports an error and returns before the FileSplitter
\* exists: no task is prepared, no output folder made, no file written.
C6_ParseFailureIsFatal ==
    (ParseFails /\ pc # "start") =>
        /\ pc = "error"
        /\ error # "none"
        /\ NoOutput
        /\ ~ENABLED Next

\* a readable file whose header does not parse, after main() returned
C6_Witness == pc = "error" /\ file.exists /\ ParseFails

\* the 0-based split column main() hands the FileSplitter
split_column_index == args.column_index - 1

InvalidColumnIndex ==
    split_column_index < 0 \/ split_column_index >= Len(column_names)

InvalidChunkSize == args.chunk_size < 1

\* main() has parsed the file and called validate_args
Validated == processed_df # EmptyFrame /\ pc # "validate"

\* C7: a split column index outside [0, len(Schema)) and a chunk size below 1
\* are rejected, each with its own error, before any task is prepared or any
\* file written.
C7_BadParametersRejected ==
    Validated =>
        /\ (InvalidColumnIndex \/ InvalidChunkSize) => (pc = "error" /\ NoOutput)
        /\ InvalidColumnIndex => error = "ValueError: column index out of range"
        /\ (InvalidChunkSize /\ ~InvalidColumnIndex)
               => error = "ValueError: chunk size invalid"

\* a chunk size of 0 with a good split column, rejected
C7_Witness ==
    /\ Validated
    /\ args.chunk_size = 0
    /\ ~InvalidColumnIndex
    /\ pc = "error"

\* C8: read_and_validate_header returns a name list only of the declared
\* length: for a header block of at least four lines with a parseable count
\* it returns the names when there are as many as declared, and raises the
\* mismatch error whenever the list parsed from line index 3 has another
\* length, a declared 0 with the list [] included.
C8_NamesMatchDeclaredCount ==
    (pc # "start" /\ file.exists) =>
        LET header_section == HeaderLines(file.lines)
            num_columns    == get_num_columns(header_section)
            names          == get_column_names(header_section)
        IN  (Len(header_section) >= 4 /\ num_columns.ok) =>
                /\ pc = "read_data" => Len(column_names) = num_columns.val
                /\ (names.ok /\ Len(names.val) = num_columns.val)
                       => (pc = "read_data" /\ column_names = names.val)
                /\ (names.ok /\ Len(names.val) # num_columns.val)
                       => (pc = "error" /\ error = "ValueError")

\* NUM_COLUMNS=0 with COLUMN_NAMES=[] was rejected
C8_Witness ==
    /\ pc = "error"
    /\ error = "ValueError"
    /\ file.exists
    /\ LET header_section == HeaderLines(file.lines)
       IN  /\ Len(header_section) >= 4
           /\ header_section[3] = <<"N", "=", "0">>
           /\ header_section[4] = <<"C", "=", "[", "]">>

\* process_dataframe has returned
Processed == pc = "validate"

\* C9: the table process_dataframe returns has no two equal rows; of equal
\* rows the first stays, the rows that stay keep their order, and
\* process_dataframe applied to its own result changes nothing.
C9_Deduplicated ==
    Processed =>
        LET src    == df.rows
            out    == processed_df.rows
            firsts == {r \in 1..Len(src) : \A q \in 1..(r - 1) : src[q] # src[r]}
            nth(k) == CHOOSE r \in firsts : Cardinality({q \in firsts : q < r}) = k - 1
        IN  /\ \A a, b \in 1..Len(out) : a # b => out[a] # out[b]
            /\ Len(out) = Cardinality(firsts)
            /\ \A k \in 1..Len(out) : out[k] = src[nth(k)]
            /\ process_dataframe(processed_df) = processed_df

\* three rows, the third equal to the first: two stay
C9_Witness ==
    /\ Processed
    /\ Len(df.rows) = 3
    /\ df.rows[1] = df.rows[3]
    /\ df.rows[1] # df.rows[2]
    /\ Len(processed_df.rows) = 2

\* C10: every row of the table has a value for each schema column, and every
\* field that is empty or absent in its body line has the value NA: no
\* missing value is left in the table.
C10_NoMissingValue ==
    Processed =>
        /\ \A r \in 1..Len(df.rows) :
            /\ Len(df.rows[r]) = Len(column_names)
            /\ \A c \in 1..Len(column_names) :
                LET fields == Split(data_section[r], ";")
                IN  (c > Len(fields) \/ fields[c] = <<>>) => df.rows[r][c] = NA
        /\ \A r \in 1..Len(processed_df.rows) :
            \A c \in 1..Len(column_names) : processed_df.rows[r][c] # NaN

\* the positions of a field in a pattern
FieldPositions(pattern, field) == {p \in 1..Len(pattern) : pattern[p] = field}

\* the pattern uses both placeholders
UsesKeyAndIndex(pattern) ==
    /\ FieldPositions(pattern, "{key}") # {}
    /\ FieldPositions(pattern, "{index}") # {}

\* the pattern is text, {key}, text ending in a character that is no digit,
\* {index}, text: the shape of the default datafile_{key}_{index}
SeparatedPattern(pattern) ==
    /\ Cardinality(FieldPositions(pattern, "{key}")) = 1
    /\ Cardinality(FieldPositions(pattern, "{index}")) = 1
    /\ \E k \in FieldPositions(pattern, "{key}"), j \in FieldPositions(pattern, "{index}") :
        k + 1 < j /\ ~IsDigit(pattern[j - 1])

\* task t's to_csv call has written its file and returned
Written(t) ==
    /\ outcome[t] = "ok"
    /\ args.threading => futures[t] \in {"finally", "done"}

\* every task has its own (key, index) pair and its own path; no two running
\* workers hold the same file; a file a task has written keeps that task's
\* lines
OwnPaths ==
    /\ \A a, b \in 1..Len(tasks) :
        a # b => /\ <<tasks[a].key, tasks[a].index>> # <<tasks[b].key, tasks[b].index>>
                 /\ tasks[a].file # tasks[b].file
    /\ \A a, b \in Running : a # b => tasks[a].file # tasks[b].file
    /\ \A t \in 1..Len(tasks) :
        Written(t) => /\ tasks[t].file \in DOMAIN disk
                      /\ disk[tasks[t].file] = CsvLines(tasks[t].sub_group)

BodyRead == pc = "convert"

\* the indices of the file lines that lie after a line whose trimmed content
\* is <BOD>, are not empty after trimming and are no tag lines
BodyIndices(lines) ==
    {k \in 1..Len(lines) :
        /\ \E b \in 1..(k - 1) : Strip(lines[b]) = BOD
        /\ Strip(lines[k]) # <<>>
        /\ ~StartsWith(Strip(lines[k]), "<")}

\* those lines, trimmed, in file order
BodyRegionLines(lines) ==
    LET idx == SelectSeq([k \in 1..Len(lines) |-> k],
                         LAMBDA k : k \in BodyIndices(lines))
    IN  [n \in 1..Len(idx) |-> Strip(lines[idx[n]])]

\* C12: every line read_data returns is trimmed, is not empty and does not
\* begin with "<"; the result is exactly the file's lines after a <BOD> line
\* that are neither empty after trimming nor tag lines (indented tag lines
\* included), trimmed and in file order.
C12_BodyLinesOnly ==
    BodyRead =>
        /\ \A n \in 1..Len(data_section) :
            /\ data_section[n] # <<>>
            /\ Strip(data_section[n]) = data_section[n]
            /\ ~StartsWith(data_section[n], "<")
        /\ data_section = BodyRegionLines(file.lines)

====
